---- MODULE Spec2Model ----
(***************************************************************************)
(* A model of deco.py: the decorators countcalls, n_ary, memo and trace,   *)
(* and the three decorated functions foo, bar and fib.                     *)
(*                                                                         *)
(* The program is sequential and recursive.  It is modelled as an          *)
(* interpreter over an explicit call stack: one frame per wrapper (or      *)
(* function body) activation, one action per step of a wrapper.  A caller  *)
(* (the environment) makes top-level calls one after the other and         *)
(* survives the exceptions they raise.                                     *)
(***************************************************************************)
EXTENDS Integers, Sequences, FiniteSets, TLC

\* ------------------------------------------------------------------ bounds
\* Number of top-level calls the caller makes.
MaxCalls == 2
\* Largest integer argument given to fib.
MaxFib == 5

\* ------------------------------------------------------- Python values
\* A value carries its Python type; floats of the model are whole numbers.
IntV(n) == [ty |-> "int", v |-> n]
FloatV(n) == [ty |-> "float", v |-> n]
BoolV(n) == [ty |-> "bool", v |-> n]
NoneV == [ty |-> "none", v |-> 0]
\* Exceptions travel in the same shape (the type's name in ty).
TypeError == [ty |-> "TypeError", v |-> 0]
ValueError == [ty |-> "ValueError", v |-> 0]

IsNum(a) == a.ty \in {"int", "float", "bool"}

\* An equality that tells the types apart.
PyEqTyped(a, b) == a = b

\* Python's == on the values of the model: numbers compare by value whatever
\* their type (1 == 1.0 == True), None equals only None.  hash() agrees with
\* ==, so this is also how a dict compares keys.
PyEq(a, b) == IF IsNum(a) /\ IsNum(b) THEN a.v = b.v ELSE a.ty = b.ty

\* The type of an arithmetic result: float if an operand is, else int
\* (bool operands give int).
NumTy(a, b) == IF a.ty = "float" \/ b.ty = "float" THEN "float" ELSE "int"

\* A result register: nothing yet, a returned value, or a raised exception.
NoRet == [kind |-> "none", v |-> NoneV]
Val(x) == [kind |-> "val", v |-> x]
Exc(e) == [kind |-> "exc", v |-> e]

\* a + b (foo's body): TypeError unless both are numbers.
Add(a, b) ==
    IF IsNum(a) /\ IsNum(b) THEN Val([ty |-> NumTy(a, b), v |-> a.v + b.v])
    ELSE Exc(TypeError)

\* a * b (bar's body).
Mul(a, b) ==
    IF IsNum(a) /\ IsNum(b) THEN Val([ty |-> NumTy(a, b), v |-> a.v * b.v])
    ELSE Exc(TypeError)

\* n <= 1 in fib's body: TypeError for None.
LeOne(n) == IF IsNum(n) THEN Val(BoolV(IF n.v <= 1 THEN 1 ELSE 0)) ELSE Exc(TypeError)

\* n - k in fib's body.
Sub(n, k) == [ty |-> NumTy(n, IntV(k)), v |-> n.v - k]

\* ---------------------------------------------------------------- str()
\* Strings are sequences of one-character strings.
Digits == <<"0", "1", "2", "3", "4", "5", "6", "7", "8", "9">>

RECURSIVE StrNat(_)
StrNat(n) == IF n < 10 THEN <<Digits[n + 1]>>
             ELSE StrNat(n \div 10) \o <<Digits[(n % 10) + 1]>>

StrInt(n) == IF n < 0 THEN <<"-">> \o StrNat(0 - n) ELSE StrNat(n)

\* str(value)
Str(a) ==
    CASE a.ty = "int" -> StrInt(a.v)
      [] a.ty = "float" -> StrInt(a.v) \o <<".", "0">>
      [] a.ty = "bool" -> IF a.v = 1 THEN <<"T", "r", "u", "e">>
                          ELSE <<"F", "a", "l", "s", "e">>
      [] OTHER -> <<"N", "o", "n", "e">>

\* sep.join(parts)
RECURSIVE Join(_, _)
Join(sep, parts) ==
    IF parts = <<>> THEN <<>>
    ELSE IF Len(parts) = 1 THEN parts[1]
    ELSE parts[1] \o sep \o Join(sep, Tail(parts))

\* ------------------------------------------------- the decorated functions
Fns == {"foo", "bar", "fib"}

\* fib with the tracer under the memoizer instead of over it.
ChainMemoOverTrace(fn) ==
    CASE fn = "foo" -> <<"memo", "countcalls", "n_ary">>
      [] fn = "bar" -> <<"countcalls", "memo", "n_ary">>
      [] fn = "fib" -> <<"countcalls", "memo", "trace", "body">>

\* The wrappers of each function, outermost first; the last layer is what the
\* innermost decorator wraps ("n_ary" holds the binary body, "body" is fib).
Chain(fn) ==
    CASE fn = "foo" -> <<"memo", "countcalls", "n_ary">>
      [] fn = "bar" -> <<"countcalls", "memo", "n_ary">>
      [] fn = "fib" -> <<"countcalls", "trace", "memo", "body">>

Kind(fr) == Chain(fr.fn)[fr.layer]

\* The binary function under n_ary.
BinOp(fn, a, b) == IF fn = "foo" THEN Add(a, b) ELSE Mul(a, b)

\* The wrappers that carry a calls attribute: every countcalls wrapper, and
\* foo's memo wrapper, which update_wrapper gave a copy of it.
CallsDom == {<<"foo", 1>>, <<"foo", 2>>, <<"bar", 1>>, <<"fib", 1>>}

VARIABLES
    stack,    \* the call stack, innermost activation last
    ret,      \* the result the last finished activation handed its caller
    calls,    \* wrapper -> its calls attribute
    results,  \* function -> the results dict of its memo wrapper
    depth,    \* decorator.depth of fib's tracer
    out,      \* lines printed during the current top-level call
    cur,      \* the current (or last) top-level call
    ncalls,   \* function -> top-level calls made to it
    under,    \* function -> memo key -> invocations of the callable under memo
    served,   \* function -> memo calls that returned, with the key of the entry read
    fcount    \* invocations of the binary function in the current call

vars == <<stack, ret, calls, results, depth, out, cur, ncalls, under, served, fcount>>


\* ------------------------------------------------------------------ memo
\* A key that forgets how an argument was passed: positional and keyword
\* values in one tuple.
MemoKeyFlat(func, args, kwargs) ==
    [f |-> func, args |-> args \o [i \in 1..Len(kwargs) |-> kwargs[i][2]], kw |-> <<>>]

\* A key built from the first two positional arguments only.
MemoKeyFirstTwo(func, args, kwargs) ==
    [f |-> func, args |-> SubSeq(args, 1, IF Len(args) < 2 THEN Len(args) ELSE 2),
     kw |-> kwargs]

\* key = (func, args, tuple(kwargs.items())); a keyword argument is a pair
\* <<name, value>>.
MemoKey(func, args, kwargs) == [f |-> func, args |-> args, kw |-> kwargs]

\* Tuple equality, as the dict compares keys: same function, same lengths,
\* elements equal under ==; names are strings and compare exactly.
KeyEq(k1, k2) ==
    /\ k1.f = k2.f
    /\ Len(k1.args) = Len(k2.args)
    /\ \A i \in 1..Len(k1.args) : PyEq(k1.args[i], k2.args[i])
    /\ Len(k1.kw) = Len(k2.kw)
    /\ \A i \in 1..Len(k1.kw) :
          k1.kw[i][1] = k2.kw[i][1] /\ PyEq(k1.kw[i][2], k2.kw[i][2])

\* A membership test that looks among the stored values instead of the keys.
InResultsValues(res, key) == \E e \in res : e.val = key

\* key in wrapper.results; a dict is a set of entries with pairwise unequal keys.
InResults(res, key) == \E e \in res : KeyEq(e.key, key)

\* The entry wrapper.results[key] reads.
Entry(res, key) == CHOOSE e \in res : KeyEq(e.key, key)

\* A store that starts the dict afresh with the one entry.
StoreAfresh(res, key, val) == {[key |-> key, val |-> val]}

\* wrapper.results[key] = val: a new entry, or a new value under the key that
\* is already there.
Store(res, key, val) ==
    IF InResults(res, key)
    THEN (res \ {Entry(res, key)}) \cup {[key |-> Entry(res, key).key, val |-> val]}
    ELSE res \cup {[key |-> key, val |-> val]}

\* update_wrapper(wrapper, func), as far as the model's state goes:
\* wrapper.__dict__.update(func.__dict__) copies func.calls, when func has
\* one, to wrapper.calls.
UpdateWrapper(c, wrapper, func) ==
    IF func \in DOMAIN c THEN (wrapper :> c[func]) @@ c ELSE c

\* ----------------------------------------------------------- countcalls
\* A counter that is never incremented.
CountIncForgotten(c) == c

\* wrapper.calls += 1
CountInc(c) == c + 1

\* ----------------------------------------------------------------- n_ary
\* Binding a call to wrapper(x, *args): x is the first positional argument, or
\* the keyword argument x of a call without positional ones; anything else
\* is a TypeError.
NaryBindOk(args, kwargs) ==
    \/ kwargs = <<>> /\ Len(args) >= 1
    \/ Len(args) = 0 /\ Len(kwargs) = 1 /\ kwargs[1][1] = <<"x">>

NaryX(args, kwargs) == IF Len(args) >= 1 THEN args[1] ELSE kwargs[1][2]

\* A recursion that skips an argument.
NaryRestSkipping(args, kwargs) == IF Len(args) >= 2 THEN Tail(Tail(args)) ELSE <<>>

NaryRest(args, kwargs) == IF Len(args) >= 1 THEN Tail(args) ELSE <<>>

\* A recursion that calls the undecorated function: the innermost layer.
FibGlobalUndecorated == Len(Chain("fib"))

\* The layer the name fib in fib's body refers to: the module's global fib,
\* which the decorators rebound to the outermost wrapper.
FibGlobal == 1

\* ------------------------------------------------------------------- fib
\* Binding a call to fib(n).
FibBindOk(args, kwargs) ==
    \/ kwargs = <<>> /\ Len(args) = 1
    \/ Len(args) = 0 /\ Len(kwargs) = 1 /\ kwargs[1][1] = <<"n">>

FibN(args, kwargs) == IF Len(args) >= 1 THEN args[1] ELSE kwargs[1][2]

\* ----------------------------------------------------------------- trace
\* args_str = ','.join([str(arg) for arg in args])
ArgsStr(args) == Join(<<",">>, [i \in 1..Len(args) |-> Str(args[i])])

\* "for key, value in kwargs" iterates the names of the keyword arguments and
\* unpacks each name into two: it raises ValueError unless every name has
\* exactly two characters.
KwargsUnpackOk(kwargs) == \A i \in 1..Len(kwargs) : Len(kwargs[i][1]) = 2

\* kwargs_str = ','.join(['%s=%s' % (key, str(value)) for key, value in kwargs])
KwargsStr(kwargs) ==
    Join(<<",">>, [i \in 1..Len(kwargs) |->
                     <<kwargs[i][1][1]>> \o <<"=">> \o <<kwargs[i][1][2]>>])

FullStr(args, kwargs) ==
    IF ArgsStr(args) # <<>> /\ KwargsStr(kwargs) # <<>>
    THEN ArgsStr(args) \o <<",">> \o KwargsStr(kwargs)
    ELSE ArgsStr(args) \o KwargsStr(kwargs)

\* decorator.depth += 1 and decorator.depth -= 1
DepthEnter(d) == d + 1
DepthExit(d) == d - 1

\* tab * decorator.depth: the number of repetitions of tab a line starts with.
Indent(d) == d

\* print(tab * depth, '-->', func.__name__, '(%s)' % full_str)
EntryLine(d, full) ==
    [indent |-> Indent(d), arrow |-> "-->", name |-> "fib", args |-> full,
     result |-> <<>>]

\* print(tab * depth, '<--', func.__name__, '(%s)' % full_str, '==', result)
ExitLine(d, full, result) ==
    [indent |-> Indent(d), arrow |-> "<--", name |-> "fib", args |-> full,
     result |-> Str(result)]

\* ---------------------------------------------------- the caller's calls
CallOf(fn, args, kwargs) == [fn |-> fn, args |-> args, kwargs |-> kwargs]
NoCall == CallOf("none", <<>>, <<>>)

FooCalls ==
    { CallOf("foo", a, <<>>) :
        a \in { <<IntV(4), IntV(3)>>, <<IntV(4), IntV(3), IntV(2)>>,
                <<IntV(3), IntV(4)>>, <<IntV(4)>>, <<>>,
                <<IntV(4), NoneV>>, <<IntV(4), NoneV, IntV(3)>>,
                <<IntV(1)>>, <<FloatV(1)>>, <<BoolV(1)>> } }
    \cup { CallOf("foo", <<>>, << <<(<<"x">>), IntV(4)>> >>) }

BarCalls ==
    { CallOf("bar", a, <<>>) :
        a \in { <<IntV(4), IntV(3)>>, <<IntV(4), IntV(3), IntV(2)>>,
                <<IntV(4), IntV(3), IntV(2), IntV(1)>>, <<>> } }

FibCalls ==
    { CallOf("fib", <<IntV(n)>>, <<>>) : n \in 0..MaxFib }
    \cup { CallOf("fib", <<NoneV>>, <<>>), CallOf("fib", <<FloatV(1)>>, <<>>),
           CallOf("fib", <<>>, << <<(<<"n">>), IntV(3)>> >>),
           CallOf("fib", <<>>, << <<(<<"a", "b">>), IntV(3)>> >>) }

Inputs == FooCalls \cup BarCalls \cup FibCalls

\* ------------------------------------------------------------ the stack
Frame(fn, layer, args, kwargs) ==
    [fn |-> fn, layer |-> layer, args |-> args, kwargs |-> kwargs,
     pc |-> "enter", tmp |-> NoneV]

Top == stack[Len(stack)]
Popped == SubSeq(stack, 1, Len(stack) - 1)
\* The running activation moves to pc (keeping x in tmp) and calls g.
CallFrom(pc, x, g) == Append(Popped, [Top EXCEPT !.pc = pc, !.tmp = x]) \o <<g>>

At(kind, pc) == stack # <<>> /\ Kind(Top) = kind /\ Top.pc = pc
Entering(kind) == At(kind, "enter") /\ ret = NoRet
Returned == ret.kind = "val"
Raised == ret.kind = "exc"

Total(n) == n["foo"] + n["bar"] + n["fib"]

\* The ghost record of the callable under a memo wrapper: per key, how often
\* it was invoked (n) and how many of the invocations raised (r).  Keys are
\* told apart as the dict tells them apart.
UnderOf(u, key) ==
    IF \E e \in u : KeyEq(e.key, key) THEN CHOOSE e \in u : KeyEq(e.key, key)
    ELSE [key |-> key, n |-> 0, r |-> 0]

Invoked(u, key) ==
    (u \ {UnderOf(u, key)}) \cup {[UnderOf(u, key) EXCEPT !.n = @ + 1]}

HasRaised(u, key) ==
    (u \ {UnderOf(u, key)}) \cup {[UnderOf(u, key) EXCEPT !.r = @ + 1]}

Init ==
    /\ stack = <<>>
    /\ ret = NoRet
    /\ calls = [w \in CallsDom |-> 0]
    /\ results = [fn \in Fns |-> {}]
    /\ depth = 0
    /\ out = <<>>
    /\ cur = NoCall
    /\ ncalls = [fn \in Fns |-> 0]
    /\ under = [fn \in Fns |-> {}]
    /\ served = [fn \in Fns |-> {}]
    /\ fcount = 0

\* The caller calls foo, bar or fib (the outermost wrapper) once the previous
\* call has ended.
Call(c) ==
    /\ stack = <<>>
    /\ Total(ncalls) < MaxCalls
    /\ stack' = <<Frame(c.fn, 1, c.args, c.kwargs)>>
    /\ ret' = NoRet
    /\ out' = <<>>
    /\ cur' = c
    /\ ncalls' = [ncalls EXCEPT ![c.fn] = @ + 1]
    /\ fcount' = 0
    /\ UNCHANGED <<calls, results, depth, under, served>>

\* countcalls.wrapper: wrapper.calls += 1, then func(*args, **kwargs).
CountcallsEnter ==
    /\ Entering("countcalls")
    /\ calls' = [calls EXCEPT ![<<Top.fn, Top.layer>>] = CountInc(@)]
    /\ stack' = CallFrom("wait", NoneV, Frame(Top.fn, Top.layer + 1, Top.args, Top.kwargs))
    /\ UNCHANGED <<ret, results, depth, out, cur, ncalls, under, served, fcount>>

\* countcalls.wrapper returns what func returned, or lets its exception pass.
CountcallsReturn ==
    /\ At("countcalls", "wait") /\ ret # NoRet
    /\ stack' = Popped
    /\ UNCHANGED <<ret, calls, results, depth, out, cur, ncalls, under, served, fcount>>

\* A memoizer that calls func although the key is in the cache.
MemoHitRecomputes ==
    /\ Entering("memo")
    /\ LET key == MemoKey(Top.fn, Top.args, Top.kwargs) IN
       /\ InResults(results[Top.fn], key)
       /\ under' = [under EXCEPT ![Top.fn] = Invoked(@, key)]
    /\ stack' = CallFrom("wait", NoneV, Frame(Top.fn, Top.layer + 1, Top.args, Top.kwargs))
    /\ UNCHANGED <<ret, calls, results, depth, out, cur, ncalls, served, fcount>>

\* memo.wrapper, key in wrapper.results: return wrapper.results[key].
MemoHit ==
    /\ Entering("memo")
    /\ LET key == MemoKey(Top.fn, Top.args, Top.kwargs) IN
       /\ InResults(results[Top.fn], key)
       /\ ret' = Val(Entry(results[Top.fn], key).val)
       /\ served' = [served EXCEPT ![Top.fn] =
              @ \cup {[args |-> Top.args, kwargs |-> Top.kwargs,
                       from |-> Entry(results[Top.fn], key).key, hit |-> TRUE]}]
    /\ stack' = Popped
    /\ UNCHANGED <<calls, results, depth, out, cur, ncalls, under, fcount>>

\* memo.wrapper, key not in wrapper.results: func(*args, **kwargs).
MemoMiss ==
    /\ Entering("memo")
    /\ LET key == MemoKey(Top.fn, Top.args, Top.kwargs) IN
       /\ ~InResults(results[Top.fn], key)
       /\ under' = [under EXCEPT ![Top.fn] = Invoked(@, key)]
    /\ stack' = CallFrom("wait", NoneV, Frame(Top.fn, Top.layer + 1, Top.args, Top.kwargs))
    /\ UNCHANGED <<ret, calls, results, depth, out, cur, ncalls, served, fcount>>

\* memo.wrapper after func returned: wrapper.results[key] = the result,
\* update_wrapper(wrapper, func), return wrapper.results[key].
MemoStore ==
    /\ At("memo", "wait") /\ Returned
    /\ LET key == MemoKey(Top.fn, Top.args, Top.kwargs)
           res == Store(results[Top.fn], key, ret.v)
       IN /\ results' = [results EXCEPT ![Top.fn] = res]
          /\ calls' = UpdateWrapper(calls, <<Top.fn, Top.layer>>, <<Top.fn, Top.layer + 1>>)
          /\ ret' = Val(Entry(res, key).val)
          /\ served' = [served EXCEPT ![Top.fn] =
                 @ \cup {[args |-> Top.args, kwargs |-> Top.kwargs,
                          from |-> Entry(res, key).key, hit |-> FALSE]}]
    /\ stack' = Popped
    /\ UNCHANGED <<depth, out, cur, ncalls, under, fcount>>

\* A memoizer that records a failed call under its key before the exception
\* passes.
MemoRaiseCaching ==
    /\ At("memo", "wait") /\ Raised
    /\ under' = [under EXCEPT ![Top.fn] =
                    HasRaised(@, MemoKey(Top.fn, Top.args, Top.kwargs))]
    /\ results' = [results EXCEPT ![Top.fn] =
                      Store(@, MemoKey(Top.fn, Top.args, Top.kwargs), NoneV)]
    /\ stack' = Popped
    /\ UNCHANGED <<ret, calls, depth, out, cur, ncalls, served, fcount>>

\* memo.wrapper when func raised: the exception passes, nothing is stored.
MemoRaise ==
    /\ At("memo", "wait") /\ Raised
    /\ under' = [under EXCEPT ![Top.fn] =
                    HasRaised(@, MemoKey(Top.fn, Top.args, Top.kwargs))]
    /\ stack' = Popped
    /\ UNCHANGED <<ret, calls, results, depth, out, cur, ncalls, served, fcount>>

\* trace.wrapper when rendering the keyword arguments fails: the ValueError
\* leaves the wrapper before depth is touched or anything is printed.
TraceRenderFail ==
    /\ Entering("trace")
    /\ ~KwargsUnpackOk(Top.kwargs)
    /\ ret' = Exc(ValueError)
    /\ stack' = Popped
    /\ UNCHANGED <<calls, results, depth, out, cur, ncalls, under, served, fcount>>

\* trace.wrapper: render the arguments, decorator.depth += 1, print the entry
\* line, then func(*args, **kwargs).
TraceEnter ==
    /\ Entering("trace")
    /\ KwargsUnpackOk(Top.kwargs)
    /\ depth' = DepthEnter(depth)
    /\ out' = Append(out, EntryLine(depth', FullStr(Top.args, Top.kwargs)))
    /\ stack' = CallFrom("wait", NoneV, Frame(Top.fn, Top.layer + 1, Top.args, Top.kwargs))
    /\ UNCHANGED <<ret, calls, results, cur, ncalls, under, served, fcount>>

\* trace.wrapper after func returned: print the exit line,
\* decorator.depth -= 1, return the result.
TraceExit ==
    /\ At("trace", "wait") /\ Returned
    /\ out' = Append(out, ExitLine(depth, FullStr(Top.args, Top.kwargs), ret.v))
    /\ depth' = DepthExit(depth)
    /\ stack' = Popped
    /\ UNCHANGED <<ret, calls, results, cur, ncalls, under, served, fcount>>

\* trace.wrapper when func raised: the exception passes; the lines after the
\* call (the exit line, depth -= 1) do not run.
TraceRaise ==
    /\ At("trace", "wait") /\ Raised
    /\ stack' = Popped
    /\ UNCHANGED <<ret, calls, results, depth, out, cur, ncalls, under, served, fcount>>

\* An adapter that answers a call without arguments with None.
NaryBindFailReturnsNone ==
    /\ Entering("n_ary")
    /\ ~NaryBindOk(Top.args, Top.kwargs)
    /\ ret' = Val(NoneV)
    /\ stack' = Popped
    /\ UNCHANGED <<calls, results, depth, out, cur, ncalls, under, served, fcount>>

\* n_ary.wrapper called with arguments that do not bind to (x, *args).
NaryBindFail ==
    /\ Entering("n_ary")
    /\ ~NaryBindOk(Top.args, Top.kwargs)
    /\ ret' = Exc(TypeError)
    /\ stack' = Popped
    /\ UNCHANGED <<calls, results, depth, out, cur, ncalls, under, served, fcount>>

\* n_ary.wrapper, not args: return x.
NarySingle ==
    /\ Entering("n_ary")
    /\ NaryBindOk(Top.args, Top.kwargs)
    /\ NaryRest(Top.args, Top.kwargs) = <<>>
    /\ ret' = Val(NaryX(Top.args, Top.kwargs))
    /\ stack' = Popped
    /\ UNCHANGED <<calls, results, depth, out, cur, ncalls, under, served, fcount>>

\* n_ary.wrapper, args: evaluate wrapper(*args) first (the inner wrapper
\* itself, not the decorated name).
NaryRecurse ==
    /\ Entering("n_ary")
    /\ NaryBindOk(Top.args, Top.kwargs)
    /\ NaryRest(Top.args, Top.kwargs) # <<>>
    /\ stack' = CallFrom("rec", NaryX(Top.args, Top.kwargs),
                         Frame(Top.fn, Top.layer, NaryRest(Top.args, Top.kwargs), <<>>))
    /\ UNCHANGED <<ret, calls, results, depth, out, cur, ncalls, under, served, fcount>>

\* n_ary.wrapper after wrapper(*args) returned r: return func(x, r), the
\* binary function's value or its exception.
NaryApply ==
    /\ At("n_ary", "rec") /\ Returned
    /\ ret' = BinOp(Top.fn, Top.tmp, ret.v)
    /\ fcount' = fcount + 1
    /\ stack' = Popped
    /\ UNCHANGED <<calls, results, depth, out, cur, ncalls, under, served>>

\* n_ary.wrapper when wrapper(*args) raised: func is not called.
NaryRaise ==
    /\ At("n_ary", "rec") /\ Raised
    /\ stack' = Popped
    /\ UNCHANGED <<ret, calls, results, depth, out, cur, ncalls, under, served, fcount>>

\* fib called with arguments that do not bind to (n).
FibBindFail ==
    /\ Entering("body")
    /\ ~FibBindOk(Top.args, Top.kwargs)
    /\ ret' = Exc(TypeError)
    /\ stack' = Popped
    /\ UNCHANGED <<calls, results, depth, out, cur, ncalls, under, served, fcount>>

\* fib's body when n <= 1 raises.
FibCompareFail ==
    /\ Entering("body")
    /\ FibBindOk(Top.args, Top.kwargs)
    /\ LeOne(FibN(Top.args, Top.kwargs)).kind = "exc"
    /\ ret' = LeOne(FibN(Top.args, Top.kwargs))
    /\ stack' = Popped
    /\ UNCHANGED <<calls, results, depth, out, cur, ncalls, under, served, fcount>>

\* fib's body, n <= 1: return 1.
FibBase ==
    /\ Entering("body")
    /\ FibBindOk(Top.args, Top.kwargs)
    /\ LeOne(FibN(Top.args, Top.kwargs)) = Val(BoolV(1))
    /\ ret' = Val(IntV(1))
    /\ stack' = Popped
    /\ UNCHANGED <<calls, results, depth, out, cur, ncalls, under, served, fcount>>

\* fib's body, n > 1: call fib(n-1); the name fib is the decorated function,
\* so the call enters the outermost wrapper.
FibFirst ==
    /\ Entering("body")
    /\ FibBindOk(Top.args, Top.kwargs)
    /\ LeOne(FibN(Top.args, Top.kwargs)) = Val(BoolV(0))
    /\ stack' = CallFrom("first", NoneV,
                         Frame("fib", FibGlobal, <<Sub(FibN(Top.args, Top.kwargs), 1)>>, <<>>))
    /\ UNCHANGED <<ret, calls, results, depth, out, cur, ncalls, under, served, fcount>>

\* fib's body after fib(n-1) returned: call fib(n-2).  (A recursive call of
\* fib never raises: its argument is a number that passed n <= 1.)
FibSecond ==
    /\ At("body", "first") /\ Returned
    /\ stack' = CallFrom("second", ret.v,
                         Frame("fib", FibGlobal, <<Sub(FibN(Top.args, Top.kwargs), 2)>>, <<>>))
    /\ ret' = NoRet
    /\ UNCHANGED <<calls, results, depth, out, cur, ncalls, under, served, fcount>>

\* fib's body after fib(n-2) returned: return fib(n-1) + fib(n-2).
FibAdd ==
    /\ At("body", "second") /\ Returned
    /\ ret' = Add(Top.tmp, ret.v)
    /\ stack' = Popped
    /\ UNCHANGED <<calls, results, depth, out, cur, ncalls, under, served, fcount>>

Next ==
    \/ \E c \in Inputs : Call(c)
    \/ CountcallsEnter
    \/ CountcallsReturn
    \/ MemoHit
    \/ MemoMiss
    \/ MemoStore
    \/ MemoRaise
    \/ TraceRenderFail
    \/ TraceEnter
    \/ TraceExit
    \/ TraceRaise
    \/ NaryBindFail
    \/ NarySingle
    \/ NaryRecurse
    \/ NaryApply
    \/ NaryRaise
    \/ FibBindFail
    \/ FibCompareFail
    \/ FibBase
    \/ FibFirst
    \/ FibSecond
    \/ FibAdd

Spec == Init /\ [][Next]_vars

\* ================================================================ claims
\* What the caller reads: foo.calls and bar.calls are attributes of the
\* outermost wrappers.
FooCalls_attr == calls[<<"foo", 1>>]
BarCalls_attr == calls[<<"bar", 1>>]

Done == stack = <<>> /\ ret # NoRet
DoneVal == stack = <<>> /\ ret.kind = "val"

\* ---------------------------------------------------------------- C1
\* C1 as stated: for every key, the callable under a memo wrapper is invoked
\* at most once during the wrapper's lifetime.
C1_InvokedAtMostOnce ==
    \A fn \in Fns : \A e \in under[fn] : e.n <= 1

\* C1 amended: for every key, the callable under a memo wrapper returns at
\* most once: it is invoked at most once more than the number of its
\* invocations for that key that raised (a raised invocation stores nothing,
\* so the next call with the key invokes it again), and a key that is in the
\* cache has had exactly one invocation that did not raise.
C1_InvokedOncePerResult ==
    \A fn \in Fns :
        /\ \A e \in under[fn] : e.n <= e.r + 1
        /\ \A c \in results[fn] :
              UnderOf(under[fn], c.key).n = UnderOf(under[fn], c.key).r + 1

\* A repeated call was answered from the cache, its key invoked once.
C1_Witness ==
    \E fn \in Fns : \E s \in served[fn] :
        /\ s.hit
        /\ UnderOf(under[fn], MemoKey(fn, s.args, s.kwargs)).n = 1

\* The values a call (or an activation) was given, positional ones first.
ValsOf(c) == c.args \o [i \in 1..Len(c.kwargs) |-> c.kwargs[i][2]]

\* ---------------------------------------------------------------- C2
\* The right-associative fold of the binary function over a non-empty list.
RECURSIVE FoldR(_, _)
FoldR(fn, a) ==
    IF Len(a) = 1 THEN a[1] ELSE BinOp(fn, a[1], FoldR(fn, Tail(a))).v

\* The n_ary wrapper of the current call has just returned to the wrapper
\* above it.
NaryOuterReturned ==
    /\ Len(stack) = 2 /\ Top.fn \in {"foo", "bar"} /\ Top.layer = 2
    /\ Top.pc = "wait" /\ Returned

\* The recursive call wrapper(*args) has just returned to an n_ary activation.
NaryInnerReturned == At("n_ary", "rec") /\ Returned

\* C2: whenever the n-ary adapter g of f returns, for a call of one or more
\* arguments, its value is x for g(x), f(x, y) for g(x, y) and
\* f(x, g(y, z, ...)) beyond, the right-associative fold of f, and f has been
\* invoked exactly (number of arguments - 1) times; the same holds of each
\* recursive call g(y, z, ...).  (While a call runs, and when f raises, f has
\* been invoked at most that often.)
C2_NaryFold ==
    /\ (cur.fn \in {"foo", "bar"} /\ ValsOf(cur) # <<>>) =>
          fcount <= Len(ValsOf(cur)) - 1
    /\ NaryOuterReturned =>
          /\ ret.v = FoldR(Top.fn, ValsOf(Top))
          /\ fcount = Len(ValsOf(Top)) - 1
    /\ NaryInnerReturned =>
          /\ ret.v = FoldR(Top.fn, Tail(Top.args))
          /\ fcount = Len(Tail(Top.args)) - 1

\* A call of three or more arguments has returned from the adapter.
C2_Witness == NaryOuterReturned /\ Len(ValsOf(Top)) >= 3 /\ fcount >= 2

\* ---------------------------------------------------------------- C3
SeqPyEq(a, b) == Len(a) = Len(b) /\ \A i \in 1..Len(a) : PyEq(a[i], b[i])

DifferArity(c1, c2) == Len(ValsOf(c1)) # Len(ValsOf(c2))

\* The same positional arguments in another order.
DifferOrder(c1, c2) ==
    /\ c1.kwargs = <<>> /\ c2.kwargs = <<>>
    /\ Len(c1.args) = Len(c2.args)
    /\ ~SeqPyEq(c1.args, c2.args)
    /\ \E p \in Permutations(1..Len(c1.args)) :
          \A i \in 1..Len(c1.args) : PyEq(c1.args[i], c2.args[p[i]])

\* The same values, one of them passed by name in one call and positionally
\* in the other.
DifferPassing(c1, c2) ==
    /\ SeqPyEq(ValsOf(c1), ValsOf(c2))
    /\ Len(c1.args) # Len(c2.args)

Differ(c1, c2) == DifferArity(c1, c2) \/ DifferOrder(c1, c2) \/ DifferPassing(c1, c2)

\* C3: two calls to the same memoized wrapper that differ in arity, in the
\* order of their arguments, or in whether an argument is passed positionally
\* or by name, read distinct cache entries, and the underlying callable has
\* been invoked for the key of each.
C3_KeysExact ==
    \A fn \in Fns : \A a, b \in served[fn] :
        Differ(a, b) =>
            /\ a.from # b.from
            /\ ~KeyEq(a.from, b.from)
            /\ UnderOf(under[fn], a.from).n >= 1
            /\ UnderOf(under[fn], b.from).n >= 1
            /\ UnderOf(under[fn], a.from) # UnderOf(under[fn], b.from)

\* foo has been called with the same value once positionally and once by
\* name, and with the same arguments in two orders or arities.
C3_Witness ==
    \E fn \in Fns : \E a, b \in served[fn] :
        DifferPassing(a, b) \/ DifferOrder(a, b)

\* ---------------------------------------------------------------- C4
\* A call to bar has been made whose counter step has not run yet.
BarPending == stack # <<>> /\ stack[1].fn = "bar" /\ stack[1].pc = "enter"

\* C4: bar.calls is 0 at construction and every top-level call to bar, hit
\* or miss, raises it by exactly 1, before the wrapped callable is invoked:
\* bar.calls equals the number of calls made to bar, less the one call whose
\* first step is still to run.
C4_BarCountsEveryCall ==
    BarCalls_attr = ncalls["bar"] - (IF BarPending THEN 1 ELSE 0)

\* Two calls to bar have ended, one of them a cache hit.
C4_Witness ==
    /\ Done /\ ncalls["bar"] = 2 /\ BarCalls_attr = 2
    /\ \E s \in served["bar"] : s.hit

\* ---------------------------------------------------------------- C5
RECURSIVE SumN(_)
SumN(u) == IF u = {} THEN 0
           ELSE LET e == CHOOSE x \in u : TRUE IN e.n + SumN(u \ {e})

\* The calls to foo that missed the cache: the invocations of the callable
\* under foo's memo wrapper.
FooMisses == SumN(under["foo"])

\* C5: after any sequence of calls to foo, foo.calls equals the number of
\* calls that missed the cache.
C5_FooCountsMisses == Done => FooCalls_attr = FooMisses

\* ---------------------------------------------------------------- C6
RECURSIVE SumV(_)
SumV(a) == IF a = <<>> THEN 0 ELSE a[1].v + SumV(Tail(a))

RECURSIVE ProdV(_)
ProdV(a) == IF a = <<>> THEN 1 ELSE a[1].v * ProdV(Tail(a))

RECURSIVE Fibonacci(_)
Fibonacci(n) == IF n <= 1 THEN 1 ELSE Fibonacci(n - 1) + Fibonacci(n - 2)

AllNum(a) == \A i \in 1..Len(a) : IsNum(a[i])

\* What a call that returns must return, as a number (or the one argument
\* itself for a fold of one argument).
Expected(c, r) ==
    CASE c.fn = "fib" -> IsNum(r) /\ r.v = Fibonacci(ValsOf(c)[1].v)
      [] Len(ValsOf(c)) = 1 -> PyEq(r, ValsOf(c)[1])
      [] c.fn = "foo" -> AllNum(ValsOf(c)) /\ IsNum(r) /\ r.v = SumV(ValsOf(c))
      [] c.fn = "bar" -> AllNum(ValsOf(c)) /\ IsNum(r) /\ r.v = ProdV(ValsOf(c))

Ints(a) == [i \in 1..Len(a) |-> IntV(a[i])]

\* C6: whatever the earlier calls left in the caches, a call to foo that
\* returns returns the sum of its arguments, one to bar their product, one to
\* fib the Fibonacci number of its argument (fib(0) = fib(1) = 1); and
\* foo(4,3) = 7, foo(4,3,2) = 9, bar(4,3) = 12, bar(4,3,2,1) = 24, fib(5) = 8.
C6_ResultsTransparent ==
    DoneVal =>
        /\ Expected(cur, ret.v)
        /\ cur = CallOf("foo", Ints(<<4, 3>>), <<>>) => ret.v = IntV(7)
        /\ cur = CallOf("foo", Ints(<<4, 3, 2>>), <<>>) => ret.v = IntV(9)
        /\ cur = CallOf("bar", Ints(<<4, 3>>), <<>>) => ret.v = IntV(12)
        /\ cur = CallOf("bar", Ints(<<4, 3, 2, 1>>), <<>>) => ret.v = IntV(24)
        /\ cur = CallOf("fib", Ints(<<5>>), <<>>) => ret.v = IntV(8)

\* fib(5) has returned 8 from a cache that an earlier call to fib had filled.
C6_Witness ==
    /\ DoneVal /\ cur = CallOf("fib", Ints(<<5>>), <<>>) /\ ret.v = IntV(8)
    /\ ncalls["fib"] = 2
    /\ \E s \in served["fib"] : s.hit

\* ---------------------------------------------------------------- C7
\* Lines i..j of the output that are entry lines, or exit lines.
Entries(j) == Cardinality({i \in 1..j : out[i].arrow = "-->"})
Exits(j) == Cardinality({i \in 1..j : out[i].arrow = "<--"})

\* The traced calls in progress when line i is printed, its own call included.
InProgressAt(i) == Entries(i) - Exits(i - 1)

\* C7: every trace line is indented by as many units as there are traced
\* calls in progress on the tracer, its own call included (so the two lines
\* of a call that returns have the same indentation, and the lines of a nested
\* call lie between them one unit deeper per level); a call that returns has
\* printed one entry and one exit line.
C7_TraceNested ==
    /\ \A i \in 1..Len(out) : out[i].indent = InProgressAt(i)
    /\ (DoneVal /\ cur.fn = "fib") => Entries(Len(out)) = Exits(Len(out))

\* ---------------------------------------------------------------- C8
FreshFib3 ==
    /\ Done /\ cur = CallOf("fib", Ints(<<3>>), <<>>) /\ ncalls["fib"] = 1

\* The arguments of the calls traced, in the order of their entry lines.
EntryArgs == SelectSeq(out, LAMBDA l : l.arrow = "-->")

\* Line j is the exit line of the call whose entry line is line i.
Paired(i, j) ==
    /\ i < j
    /\ out[i].arrow = "-->" /\ out[j].arrow = "<--"
    /\ out[i].indent = out[j].indent /\ out[i].args = out[j].args
    /\ Entries(j) - Entries(i) = Exits(j - 1) - Exits(i)

EveryLinePaired ==
    /\ \A i \in 1..Len(out) : out[i].arrow = "-->" =>
          \E j \in 1..Len(out) : Paired(i, j)
    /\ \A j \in 1..Len(out) : out[j].arrow = "<--" =>
          \E i \in 1..Len(out) : Paired(i, j)

\* C8 as stated: fib(3) on the fresh fib prints nine trace lines, one
\* entry/exit pair per distinct argument value visited.
C8_NineLines ==
    FreshFib3 =>
        /\ Len(out) = 9
        /\ EveryLinePaired
        /\ \A i, j \in 1..Len(EntryArgs) : i # j => EntryArgs[i].args # EntryArgs[j].args

\* C8 amended: fib(3) on the fresh fib prints exactly ten trace lines, one
\* entry/exit pair per call made during the recursion - fib(3), fib(2),
\* fib(1), fib(0) and fib(1) again, whose cache hit is traced too -, each
\* entry line paired with an exit line of the same depth for the same call.
C8_TenLines ==
    FreshFib3 =>
        /\ Len(out) = 10
        /\ EveryLinePaired
        /\ [i \in 1..Len(EntryArgs) |-> EntryArgs[i].args]
              = <<Str(IntV(3)), Str(IntV(2)), Str(IntV(1)), Str(IntV(0)), Str(IntV(1))>>

C8_Witness == FreshFib3 /\ Len(out) = 10 /\ ret = Val(IntV(3))

\* ---------------------------------------------------------------- C9
\* C9: the lines of an outermost traced call carry zero repetitions of the
\* indentation unit, those of a call nested k levels below it exactly k.
C9_OutermostUnindented ==
    \A i \in 1..Len(out) : out[i].indent = InProgressAt(i) - 1

\* ---------------------------------------------------------------- C10
\* The rendering the claim describes: the positional arguments, then each
\* keyword argument as name=value, joined by commas.
NameValueStr(args, kwargs) ==
    Join(<<",">>, [i \in 1..Len(args) + Len(kwargs) |->
                     IF i <= Len(args) THEN Str(args[i])
                     ELSE kwargs[i - Len(args)][1] \o <<"=">>
                          \o Str(kwargs[i - Len(args)][2])])

\* C10: a traced call with keyword arguments never fails in the tracer: its
\* entry line shows name=value for each keyword argument, and the wrapped
\* callable is invoked.
C10_KwargsRendered ==
    (cur.fn = "fib" /\ cur.kwargs # <<>>) =>
        /\ ret # Exc(ValueError)
        /\ out # <<>> => out[1].args = NameValueStr(cur.args, cur.kwargs)
        /\ Done => UnderOf(under["fib"], MemoKey("fib", cur.args, cur.kwargs)).n >= 1

\* ---------------------------------------------------------------- C11
ZeroArgs(c) == c.fn \in {"foo", "bar"} /\ c.args = <<>> /\ c.kwargs = <<>>

\* C11: a call of the n-ary adapter (of foo or bar) with zero arguments never
\* invokes the wrapped binary function and never returns a value: it ends
\* with the TypeError of the argument binding.
C11_ZeroArgsFail ==
    ZeroArgs(cur) =>
        /\ fcount = 0
        /\ ret.kind # "val"
        /\ Done => ret = Exc(TypeError)

\* foo() or bar() has ended with TypeError.
C11_Witness == ZeroArgs(cur) /\ Done /\ ret = Exc(TypeError) /\ fcount = 0

\* ---------------------------------------------------------------- C12
\* The traced calls in progress: the activations of the tracer's wrapper that
\* have counted themselves in and not ended.
TracedInProgress ==
    Cardinality({i \in 1..Len(stack) : Kind(stack[i]) = "trace" /\ stack[i].pc = "wait"})

\* C12: the tracer's depth counter equals the number of traced calls in
\* progress; it is 0 whenever none is, also after a traced call that ended
\* with an exception of the wrapped callable.
C12_DepthIsNesting == depth = TracedInProgress

\* ---------------------------------------------------------------- C13
\* Every entry of every cache is in the cache after the step, key and value.
EntriesKept == \A fn \in Fns : \A e \in results[fn] : e \in results'[fn]

\* A cache holds one entry per key.
OneEntryPerKey ==
    \A fn \in Fns : \A e1, e2 \in results[fn] : KeyEq(e1.key, e2.key) => e1 = e2

\* C13: the memo cache only grows: a key stored with a value is present with
\* that same value in every later state (no entry is removed or overwritten,
\* and no second entry is made for its key), so a hit reads the value stored
\* by the first call for the key.
C13_CacheOnlyGrows == [][EntriesKept /\ OneEntryPerKey /\ OneEntryPerKey']_vars

\* A cache of several entries, one of which a later call has read.
C13_Witness ==
    \E fn \in Fns :
        /\ Cardinality(results[fn]) >= 2
        /\ \E s \in served[fn] : s.hit /\ \E e \in results[fn] : e.key = s.from

\* ---------------------------------------------------------------- C14
\* The running activation is a memo wrapper called with a key of its cache.
HitStep ==
    Entering("memo") /\ InResults(results[Top.fn], MemoKey(Top.fn, Top.args, Top.kwargs))

\* C14: a call to a memoized wrapper whose key is in the cache returns the
\* stored value in one step, without calling the underlying callable or any
\* layer below, and leaves the cache, every counter and the tracer alone.
C14_HitLeavesStateAlone ==
    [][HitStep =>
         /\ ret' = Val(Entry(results[Top.fn], MemoKey(Top.fn, Top.args, Top.kwargs)).val)
         /\ stack' = Popped
         /\ results' = results
         /\ under' = under
         /\ calls' = calls
         /\ fcount' = fcount
         /\ depth' = depth /\ out' = out]_vars

\* foo has been called twice with one key: the second call was a hit, and the
\* counter under foo's memoizer counts one call.
C14_Witness ==
    /\ Done /\ ncalls["foo"] = 2 /\ calls[<<"foo", 2>>] = 1
    /\ \E s \in served["foo"] : s.hit

\* ---------------------------------------------------------------- C15
\* fib(n) has ended, the first call made to fib.
FreshFib(n) ==
    /\ Done /\ ncalls["fib"] = 1 /\ cur = CallOf("fib", <<IntV(n)>>, <<>>)

\* Executions of fib's body: the invocations of the callable under fib's memo
\* wrapper, in all and for the argument k.
BodyRuns == SumN(under["fib"])
BodyRunsFor(k) == UnderOf(under["fib"], MemoKey("fib", <<IntV(k)>>, <<>>)).n

\* C15 as stated: fib(n), n >= 1, on the fresh fib executes the body once for
\* each value 0..n (n+1 executions) and leaves fib.calls = 2n-1.
C15_BodyOncePerValueFromOne ==
    \A n \in 1..MaxFib :
        FreshFib(n) =>
            /\ \A k \in 0..n : BodyRunsFor(k) = 1
            /\ BodyRuns = n + 1
            /\ calls[<<"fib", 1>>] = 2 * n - 1

\* C15 amended: the recursive calls in fib's body go through all wrapper
\* layers: fib(n) on the fresh fib leaves fib.calls = 2n-1 for n >= 1 (cache
\* hits are counted too; 9 for fib(5)) and executes the body exactly once for
\* each value 0..n (n+1 executions) for n >= 2; fib(1) executes the body once,
\* for the value 1 only.
C15_RecursionThroughWrappers ==
    \A n \in 1..MaxFib :
        FreshFib(n) =>
            /\ calls[<<"fib", 1>>] = 2 * n - 1
            /\ n >= 2 => (BodyRuns = n + 1 /\ \A k \in 0..n : BodyRunsFor(k) = 1)
            /\ n = 1 => (BodyRuns = 1 /\ BodyRunsFor(1) = 1 /\ BodyRunsFor(0) = 0)

\* fib(5) on the fresh fib: nine counted calls, six executions of the body.
C15_Witness == FreshFib(5) /\ calls[<<"fib", 1>>] = 9 /\ BodyRuns = 6

\* ---------------------------------------------------------------- C16
\* The callable under the running memo wrapper has raised.
RaiseStep == At("memo", "wait") /\ Raised

\* The running activation is a memo wrapper called with a key for which the
\* underlying callable has raised before.
RetryStep ==
    /\ Entering("memo")
    /\ UnderOf(under[Top.fn], MemoKey(Top.fn, Top.args, Top.kwargs)).r >= 1

\* C16: when the underlying callable raises, the memo wrapper hands the same
\* exception to its caller, stores no entry for the key and changes nothing
\* else in the cache (nor any counter); a later call with the key invokes the
\* underlying callable again.
C16_RaiseStoresNothing ==
    [][/\ RaiseStep =>
            /\ ret' = ret
            /\ stack' = Popped
            /\ results' = results
            /\ ~InResults(results'[Top.fn], MemoKey(Top.fn, Top.args, Top.kwargs))
            /\ calls' = calls
       /\ RetryStep =>
            /\ Len(stack') = Len(stack) + 1
            /\ UnderOf(under'[Top.fn], MemoKey(Top.fn, Top.args, Top.kwargs)).n
                 = UnderOf(under[Top.fn], MemoKey(Top.fn, Top.args, Top.kwargs)).n + 1]_vars

\* A call has raised twice for one key, the underlying callable invoked both
\* times, and the key is not in the cache.
C16_Witness ==
    \E fn \in Fns : \E e \in under[fn] :
        e.r = 2 /\ e.n = 2 /\ ~InResults(results[fn], e.key) /\ Done

\* ---------------------------------------------------------------- C17
\* C17: whenever no call to foo is in progress, foo.calls (the copy on the
\* memoizer's wrapper) equals the counter of the counting layer under it,
\* which counts every entry into that layer.
C17_CopyIsCurrent ==
    stack = <<>> =>
        /\ calls[<<"foo", 2>>] = FooMisses
        /\ FooCalls_attr = calls[<<"foo", 2>>]

\* ---------------------------------------------------------------- C18
\* Two calls pass equal numbers, the same way and under the same names, but
\* of different types somewhere.
DifferInTypeOnly(c1, c2) ==
    /\ Len(c1.args) = Len(c2.args) /\ Len(c1.kwargs) = Len(c2.kwargs)
    /\ \A i \in 1..Len(c1.kwargs) : c1.kwargs[i][1] = c2.kwargs[i][1]
    /\ \A i \in 1..Len(ValsOf(c1)) :
          \/ ValsOf(c1)[i] = ValsOf(c2)[i]
          \/ /\ IsNum(ValsOf(c1)[i]) /\ IsNum(ValsOf(c2)[i])
             /\ ValsOf(c1)[i].v = ValsOf(c2)[i].v
    /\ \E i \in 1..Len(ValsOf(c1)) : ValsOf(c1)[i].ty # ValsOf(c2)[i].ty

\* C18 as stated: two calls whose arguments differ only in type (1, 1.0,
\* True) use distinct keys: they read distinct cache entries.
C18_TypesDistinguished ==
    \A fn \in Fns : \A a, b \in served[fn] :
        DifferInTypeOnly(a, b) => a.from # b.from

\* C18 amended: memo keys do not distinguish the types of arguments that
\* compare equal: two calls whose arguments differ only in type (1, 1.0,
\* True) use one key, both are answered from one cache entry, and the
\* underlying callable has been invoked once for them.
C18_EqualArgumentsShareKey ==
    \A fn \in Fns : \A a, b \in served[fn] :
        DifferInTypeOnly(a, b) =>
            /\ a.from = b.from
            /\ a.hit \/ b.hit
            /\ UnderOf(under[fn], a.from).n = 1

\* foo has been called with 1 and with 1.0 (or True): one entry serves both.
C18_Witness ==
    \E a, b \in served["foo"] : DifferInTypeOnly(a, b) /\ a.from = b.from

====
